---------------------------- MODULE Spec2Model ----------------------------
(***************************************************************************)
(* mbf_genomes/gene.py: merging of exon intervals (merge_exons), intron    *)
(* derivation (_intron_intervals_from_exons) and the derived properties    *)
(* of Gene and Transcript.                                                 *)
(*                                                                         *)
(* An interval is a pair <<start, stop>>.  A Python list is a sequence; a  *)
(* pair of numpy arrays (starts, stops) is a pair of sequences.  Python's  *)
(* 0-based row index ii is kept 1-based here, and last_row = None is 0.    *)
(***************************************************************************)
EXTENDS Integers, Sequences, FiniteSets, Bags, TLC

VARIABLES
    exons,      \* the list object a caller hands to merge_exons or to
                \* _intron_intervals_from_exons (calls may change it in place)
    region,     \* <<gene_start, gene_stop>> handed to _intron_intervals_from_exons
    gene,       \* the Gene object, with its transcripts
    call,       \* the last call: its name and the arguments as they were given
    result,     \* what the last call returned or raised
    prev        \* what the call before it returned

vars == <<exons, region, gene, call, result, prev>>

----------------------------------------------------------------------------
(* Bounds of the model *)

\* merge_exons: coordinates 0..MaxCoord, lists of at most MaxLen intervals
MaxCoord == 3
MaxLen == 3
\* _intron_intervals_from_exons: coordinates 0..MaxExonCoord, at most MaxExons exons
MaxExonCoord == 2
MaxExons == 2
\* Transcript.introns: coordinates 0..MaxTrCoord, at most MaxTrExons exons
MaxTrCoord == 4
MaxTrExons == 2
\* Gene: coordinates 0..MaxGeneCoord; transcripts plus exons of a gene <= MaxGeneSize
MaxGeneCoord == 2
MaxGeneSize == 4

----------------------------------------------------------------------------
(* Values *)

Max(a, b) == IF a > b THEN a ELSE b

Intervals(maxc) == {<<s, e>> : s \in 0..maxc, e \in 0..maxc}
ValidIntervals(maxc) == {iv \in Intervals(maxc) : iv[1] <= iv[2]}
ListsUpTo(S, n) == UNION {[1..k -> S] : k \in 0..n}

None == 0

\* results of a call: numpy arrays (starts, stops), a list of tuples, or an exception
NoResult == [kind |-> "none", starts |-> <<>>, stops |-> <<>>, items |-> <<>>, exc |-> ""]
Arrays(st, sp) == [kind |-> "arrays", starts |-> st, stops |-> sp, items |-> <<>>, exc |-> ""]
List(xs) == [kind |-> "list", starts |-> <<>>, stops |-> <<>>, items |-> xs, exc |-> ""]
Raise(e) == [kind |-> "raise", starts |-> <<>>, stops |-> <<>>, items |-> <<>>, exc |-> e]

NoGene == [start |-> 0, stop |-> 0, biotype |-> "", transcripts |-> <<>>]
NoCall == [op |-> "none", arg |-> <<>>, merge |-> FALSE, tr |-> 0]
Called(op, arg, merge, tr) == [op |-> op, arg |-> arg, merge |-> merge, tr |-> tr]

----------------------------------------------------------------------------
(* list.sort() / sorted() on tuples: ascending, lexicographic on (start, stop) *)

TupleLess(a, b) == a[1] < b[1] \/ (a[1] = b[1] /\ a[2] < b[2])

RECURSIVE Insert(_, _)
Insert(x, s) ==
    IF s = <<>> THEN <<x>>
    ELSE IF TupleLess(x, Head(s)) THEN <<x>> \o s
    ELSE <<Head(s)>> \o Insert(x, Tail(s))

RECURSIVE SortTuples(_)
SortTuples(s) == IF s = <<>> THEN <<>> ELSE Insert(Head(s), SortTuples(Tail(s)))

----------------------------------------------------------------------------
(* merge_exons *)

\* line 27: the row overlaps the open run
OverlapsOrTouches(start, last_stop) == 0 < last_stop /\ start <= last_stop
Overlaps(start, last_stop) == start < last_stop

\* line 29: the run's stop after absorbing the row
KeepOwnStop(stop, last_stop) == stop
ExtendStop(stop, last_stop) == Max(stop, last_stop)

\* the sweep with last_stop set to the row's own stop instead of the farthest stop
SweepStepOwnStop(s) ==
    LET ii == s.ii
        overlap == Overlaps(s.starts[ii], s.last_stop)
        starts1 == IF overlap THEN [s.starts EXCEPT ![ii] = s.starts[s.last_row]]
                   ELSE s.starts
        stops1 == IF overlap
                  THEN [s.stops EXCEPT ![ii] = ExtendStop(s.stops[ii], s.last_stop)]
                  ELSE s.stops
        keep1 == IF ~overlap /\ s.last_row # None
                 THEN [s.keep EXCEPT ![s.last_row] = TRUE]
                 ELSE s.keep
    IN [starts |-> starts1, stops |-> stops1, keep |-> keep1,
        last_stop |-> s.stops[ii], last_row |-> ii, ii |-> ii + 1]

\* lines 27-37: one pass of the while loop
SweepStep(s) ==
    LET ii == s.ii
        overlap == Overlaps(s.starts[ii], s.last_stop)
        starts1 == IF overlap THEN [s.starts EXCEPT ![ii] = s.starts[s.last_row]]
                   ELSE s.starts
        stops1 == IF overlap
                  THEN [s.stops EXCEPT ![ii] = ExtendStop(s.stops[ii], s.last_stop)]
                  ELSE s.stops
        keep1 == IF ~overlap /\ s.last_row # None
                 THEN [s.keep EXCEPT ![s.last_row] = TRUE]
                 ELSE s.keep
        last_stop1 == IF stops1[ii] > s.last_stop THEN stops1[ii] ELSE s.last_stop
    IN [starts |-> starts1, stops |-> stops1, keep |-> keep1,
        last_stop |-> last_stop1, last_row |-> ii, ii |-> ii + 1]

\* lines 26, 38-39: the while loop, then the last row is kept
RECURSIVE Sweep(_)
Sweep(s) ==
    IF s.ii <= Len(s.starts) THEN Sweep(SweepStep(s))
    ELSE IF s.last_row # None THEN [s EXCEPT !.keep[s.last_row] = TRUE]
    ELSE s

\* line 40: arr[keep]
Unmasked(arr, keep) == arr

RECURSIVE Masked(_, _)
Masked(arr, keep) ==
    IF arr = <<>> THEN <<>>
    ELSE (IF Head(keep) THEN <<Head(arr)>> ELSE <<>>) \o Masked(Tail(arr), Tail(keep))

\* lines 18-40; the argument list is sorted in place (line 18), which the
\* callers see: MergeExonsSorted is the list as the call leaves it
MergeExonsSorted(xs) == SortTuples(xs)

merge_exons(xs) ==
    LET sorted == MergeExonsSorted(xs)
        lendf == Len(sorted)
        s0 == [starts |-> [i \in 1..lendf |-> sorted[i][1]],
               stops |-> [i \in 1..lendf |-> sorted[i][2]],
               keep |-> [i \in 1..lendf |-> FALSE],
               last_stop |-> 0, last_row |-> None, ii |-> 1]
        s == Sweep(s0)
    IN Arrays(Masked(s.starts, s.keep), Masked(s.stops, s.keep))

\* list(zip(starts, stops)) of a returned pair of arrays
Zip(r) == [i \in 1..Len(r.starts) |-> <<r.starts[i], r.stops[i]>>]

----------------------------------------------------------------------------
(* A caller of merge_exons *)

InitMerge ==
    /\ exons \in ListsUpTo(ValidIntervals(MaxCoord), MaxLen)
    /\ region = <<0, 0>>
    /\ gene = NoGene
    /\ call = NoCall
    /\ result = NoResult
    /\ prev = NoResult

\* merge_exons(exons)
CallMergeExons ==
    /\ call.op = "none"
    /\ call' = Called("merge_exons", exons, FALSE, 0)
    /\ result' = merge_exons(exons)
    /\ exons' = MergeExonsSorted(exons)
    /\ prev' = result
    /\ UNCHANGED <<region, gene>>

\* merge_exons(list(zip(starts, stops))) on what merge_exons returned
CallMergeExonsAgain ==
    /\ call.op = "merge_exons"
    /\ result.kind = "arrays"
    /\ call' = Called("merge_exons_again", Zip(result), FALSE, 0)
    /\ result' = merge_exons(Zip(result))
    /\ exons' = MergeExonsSorted(Zip(result))
    /\ prev' = result
    /\ UNCHANGED <<region, gene>>

NextMerge == CallMergeExons \/ CallMergeExonsAgain

Spec == InitMerge /\ [][NextMerge]_vars

----------------------------------------------------------------------------
(* Properties of merge_exons *)

MergeReturned == call.op \in {"merge_exons", "merge_exons_again"}

\* the integer positions covered by half-open intervals
Covered(xs) == UNION {xs[i][1] .. (xs[i][2] - 1) : i \in 1..Len(xs)}

\* C1: merge_exons returns starts and stops of equal length, no longer than
\* the input, with ascending starts and stops[i] <= starts[i+1] for every
\* pair of consecutive output intervals; empty input gives empty output.
MergeOutputOrdered ==
    MergeReturned =>
        /\ result.kind = "arrays"
        /\ Len(result.starts) = Len(result.stops)
        /\ Len(result.starts) <= Len(call.arg)
        /\ \A i \in 1..(Len(result.starts) - 1) :
              /\ result.starts[i] <= result.starts[i + 1]
              /\ result.stops[i] <= result.starts[i + 1]
        /\ (call.arg = <<>> => result.starts = <<>> /\ result.stops = <<>>)

\* three intervals given out of order, two of them merged into one
MergeOutputOrderedWitness ==
    /\ call.op = "merge_exons"
    /\ Len(call.arg) = 3
    /\ call.arg # exons
    /\ Len(result.starts) = 2

\* C2: the positions covered by the output intervals of merge_exons are
\* exactly the positions covered by the input intervals.
MergeKeepsCoverage ==
    MergeReturned => Covered(Zip(result)) = Covered(call.arg)

\* an interval nested inside another one, and a third interval apart from both
MergeKeepsCoverageWitness ==
    /\ call.op = "merge_exons"
    /\ \E i, j \in 1..Len(call.arg) :
          /\ call.arg[i][1] < call.arg[j][1]
          /\ call.arg[j][2] < call.arg[i][2]
    /\ Len(result.starts) = 2
    /\ Covered(call.arg) # {}

\* the largest stop among the first n intervals of xs (0 when there is none)
RECURSIVE MaxStopUpTo(_, _)
MaxStopUpTo(xs, n) == IF n = 0 THEN 0 ELSE Max(xs[n][2], MaxStopUpTo(xs, n - 1))

\* the rows of the sorted input that begin an output interval
RunStarts(xs) == {i \in 1..Len(xs) : xs[i][1] >= MaxStopUpTo(xs, i - 1)}

\* the last row of the run that row i begins
RunEnd(xs, i) ==
    CHOOSE j \in i..Len(xs) :
        /\ \A k \in (i + 1)..j : k \notin RunStarts(xs)
        /\ (j = Len(xs) \/ (j + 1) \in RunStarts(xs))

\* the k-th smallest element of a set of numbers
KthOf(S, k) == CHOOSE x \in S : Cardinality({y \in S : y < x}) = k - 1

\* one output interval per run: the start of its first row, the largest stop seen
RunsOf(xs) ==
    [k \in 1..Cardinality(RunStarts(xs)) |->
        LET i == KthOf(RunStarts(xs), k)
        IN <<xs[i][1], MaxStopUpTo(xs, RunEnd(xs, i))>>]

\* C7: in (start, stop) order an interval begins a new output interval
\* exactly when its start is >= the largest stop of all intervals before it
\* (>= 0 for the first); otherwise it is absorbed into the current output
\* interval, whose start stays and whose stop becomes the largest stop seen.
\* Touching intervals stay separate, strictly overlapping ones become one.
MergeRunsAreStrictOverlaps ==
    MergeReturned =>
        /\ Zip(result) = RunsOf(SortTuples(call.arg))
        /\ (call.arg = <<<<0, 1>>, <<1, 2>>>> => Zip(result) = <<<<0, 1>>, <<1, 2>>>>)
        /\ (call.arg = <<<<0, 2>>, <<1, 3>>>> => Zip(result) = <<<<0, 3>>>>)

\* a touching pair that stays separate beside an overlapping pair that is merged
MergeRunsAreStrictOverlapsWitness ==
    /\ call.op = "merge_exons"
    /\ call.arg = <<<<2, 3>>, <<0, 2>>, <<1, 2>>>>
    /\ Zip(result) = <<<<0, 2>>, <<2, 3>>>>

\* C10: after a call the interval list the caller passed holds the same
\* elements in the same order as before the call.
CallsLeaveArgumentsAsGiven ==
    call.op # "none" => exons = call.arg

\* C8: merge_exons applied to the pairs of its own output returns that output.
MergeIsIdempotent ==
    call.op = "merge_exons_again" => result = prev

\* the second pass over an output of two touching intervals
MergeIsIdempotentWitness ==
    /\ call.op = "merge_exons_again"
    /\ prev.kind = "arrays"
    /\ Len(result.starts) = 2
    /\ result.stops[1] = result.starts[2]
    /\ result.starts[1] < result.stops[1]

----------------------------------------------------------------------------
(* intervals.merge_intervals: the tabular interval merge, all rows on one   *)
(* chromosome; the sweep of the Interval Merge Engine                       *)

RECURSIVE EngineSweep(_, _, _)
EngineSweep(rows, runs, last_stop) ==
    IF rows = <<>> THEN runs
    ELSE LET r == Head(rows)
             n == Len(runs)
             runs1 == IF n > 0 /\ r[1] < last_stop
                      THEN [runs EXCEPT ![n] = <<runs[n][1], Max(r[2], last_stop)>>]
                      ELSE Append(runs, r)
         IN EngineSweep(Tail(rows), runs1, Max(last_stop, r[2]))

merge_intervals(xs) == EngineSweep(SortTuples(xs), <<>>, 0)

----------------------------------------------------------------------------
(* _intron_intervals_from_exons *)

IndexError == "IndexError: list index out of range"
InvertedExonError == "ValueError: inverted exon"
OverlappingExonsError == "ValueError: saw exons that need merging"

\* line 60
InvertedExon(exon_start, exon_stop) == exon_stop < exon_start

\* line 62
AlwaysEmits(intron_start, exon_start) == TRUE
EmitsIntron(intron_start, exon_start) == intron_start # exon_start

\* line 63: the overlapping exons case
NeverBehind(intron_start, exon_start) == FALSE
ExonBehindCursor(intron_start, exon_start) == intron_start > exon_start

\* lines 59-79: the loop over the exons and the trailing intron
RECURSIVE IntronLoop(_, _, _, _)
IntronLoop(xs, intron_start, res, gene_stop) ==
    IF xs = <<>>
    THEN List(IF intron_start < gene_stop
              THEN Append(res, <<intron_start, gene_stop>>)
              ELSE res)
    ELSE LET exon_start == Head(xs)[1]
             exon_stop == Head(xs)[2]
         IN IF InvertedExon(exon_start, exon_stop) THEN Raise(InvertedExonError)
            ELSE IF EmitsIntron(intron_start, exon_start)
                    /\ ExonBehindCursor(intron_start, exon_start)
            THEN Raise(OverlappingExonsError)
            ELSE IntronLoop(Tail(xs), exon_stop,
                            IF EmitsIntron(intron_start, exon_start)
                            THEN Append(res, <<intron_start, exon_start>>)
                            ELSE res,
                            gene_stop)

\* lines 43-79; with merge, zip_exons[0] of an empty list is out of range (line 52)
_intron_intervals_from_exons(xs, gene_start, gene_stop, merge) ==
    IF merge /\ xs = <<>> THEN Raise(IndexError)
    ELSE IntronLoop(IF merge THEN merge_intervals(xs) ELSE xs,
                    gene_start, <<>>, gene_stop)

----------------------------------------------------------------------------
(* A caller of _intron_intervals_from_exons *)

InitIntrons ==
    /\ exons \in ListsUpTo(Intervals(MaxExonCoord), MaxExons)
    /\ region \in (0..MaxExonCoord) \X (0..MaxExonCoord)
    /\ gene = NoGene
    /\ call = NoCall
    /\ result = NoResult
    /\ prev = NoResult

\* _intron_intervals_from_exons(exons, gene_start, gene_stop, merge)
CallIntronsFromExons ==
    \E merge \in BOOLEAN :
        /\ call' = Called("_intron_intervals_from_exons", exons, merge, 0)
        /\ result' = _intron_intervals_from_exons(exons, region[1], region[2], merge)
        /\ UNCHANGED <<exons, region, gene, prev>>

NextIntrons == CallIntronsFromExons

SpecIntrons == InitIntrons /\ [][NextIntrons]_vars

----------------------------------------------------------------------------
(* Properties of _intron_intervals_from_exons *)

IntronsReturned == call.op = "_intron_intervals_from_exons"

SortedByStart(xs) == \A i, j \in 1..Len(xs) : i < j => xs[i][1] <= xs[j][1]
AllValid(xs) == \A i \in 1..Len(xs) : xs[i][1] <= xs[i][2]

\* a later exon starts before an earlier exon's stop
HasOverlap(xs) == \E i, j \in 1..Len(xs) : i < j /\ xs[j][1] < xs[i][2]

RaisedOverlap == result.kind = "raise" /\ result.exc = OverlappingExonsError

InvertedExonAlwaysRaises ==
    (IntronsReturned /\ ~AllValid(call.arg)) =>
        /\ result.kind = "raise"
        /\ result.exc \in {InvertedExonError, OverlappingExonsError}

----------------------------------------------------------------------------
(* Gene and Transcript.  A transcript is [biotype, exons]; its gene         *)
(* back-reference is the gene that holds it.  A gene is [start, stop,       *)
(* biotype, transcripts].                                                   *)

ProteinCoding == "protein_coding"
Biotypes == {ProteinCoding, "lincRNA"}

\* lines 129-132: a fresh list, extended by every transcript's exons
RECURSIVE ExtendAll(_)
ExtendAll(trs) == IF trs = <<>> THEN <<>> ELSE Head(trs).exons \o ExtendAll(Tail(trs))

_exons(g) == ExtendAll(g.transcripts)

\* line 160
IsProteinCoding(tr) == tr.biotype = ProteinCoding

\* a filter on the gene's biotype instead of each transcript's
ExonsIfGeneProteinCoding(g) == IF g.biotype = ProteinCoding THEN _exons(g) ELSE <<>>

\* lines 158-162
RECURSIVE ExtendProteinCoding(_)
ExtendProteinCoding(trs) ==
    IF trs = <<>> THEN <<>>
    ELSE (IF IsProteinCoding(Head(trs)) THEN Head(trs).exons ELSE <<>>)
         \o ExtendProteinCoding(Tail(trs))

_exons_protein_coding(g) == ExtendProteinCoding(g.transcripts)

\* lines 152-153
_reformat_exons(xs) ==
    LET sorted == SortTuples(xs)
    IN Arrays([i \in 1..Len(sorted) |-> sorted[i][1]],
              [i \in 1..Len(sorted) |-> sorted[i][2]])

\* line 139
exons_merged(g) == merge_exons(_exons(g))

\* line 147
exons_overlapping(g) == _reformat_exons(_exons(g))

\* line 170
exons_protein_coding_merged(g) == merge_exons(_exons_protein_coding(g))

\* line 182
exons_protein_coding_overlapping(g) == _reformat_exons(_exons_protein_coding(g))

\* lines 107-124: Gene.introns; an exception of the deriver passes through
Gene_introns(g) ==
    LET transcript_introns ==
            _intron_intervals_from_exons(SortTuples(_exons(g)), g.start, g.stop, TRUE)
    IN IF transcript_introns.kind = "raise" THEN transcript_introns
       ELSE List(merge_intervals(transcript_introns.items))

\* line 201
exons_tuples(tr) == [i \in 1..Len(tr.exons) |-> <<tr.exons[i][1], tr.exons[i][2]>>]

\* lines 211-214: Transcript.introns, bounded by the owning gene g
Transcript_introns(g, tr) ==
    _intron_intervals_from_exons(SortTuples(exons_tuples(tr)), g.start, g.stop, FALSE)

----------------------------------------------------------------------------
(* Genes under access *)

\* the transcripts with at most n exons
TranscriptsUpTo(maxc, n) ==
    [biotype : Biotypes, exons : ListsUpTo(ValidIntervals(maxc), n)]

\* the transcript lists whose transcripts and exons together number at most b
RECURSIVE TranscriptLists(_, _)
TranscriptLists(maxc, b) ==
    {<<>>} \cup
    (IF b = 0 THEN {}
     ELSE UNION {{<<t>> \o rest : rest \in TranscriptLists(maxc, b - 1 - Len(t.exons))} :
                 t \in TranscriptsUpTo(maxc, b - 1)})

GeneSpans(maxc) == ValidIntervals(maxc)

UntouchedCaller ==
    /\ exons = <<>>
    /\ region = <<0, 0>>
    /\ call = NoCall
    /\ result = NoResult
    /\ prev = NoResult

\* any gene
InitGene ==
    /\ gene \in {[start |-> sp[1], stop |-> sp[2], biotype |-> b, transcripts |-> trs] :
                    sp \in GeneSpans(MaxGeneCoord), b \in Biotypes,
                    trs \in TranscriptLists(MaxGeneCoord, MaxGeneSize)}
    /\ UntouchedCaller

\* genes that span the whole coordinate range
InitCoding ==
    /\ gene \in {[start |-> 0, stop |-> MaxGeneCoord, biotype |-> b, transcripts |-> trs] :
                    b \in Biotypes,
                    trs \in TranscriptLists(MaxGeneCoord, MaxGeneSize)}
    /\ UntouchedCaller

\* genes of one transcript
InitTranscript ==
    /\ gene \in {[start |-> sp[1], stop |-> sp[2], biotype |-> ProteinCoding,
                  transcripts |-> <<[biotype |-> ProteinCoding, exons |-> xs]>>] :
                    sp \in GeneSpans(MaxTrCoord),
                    xs \in ListsUpTo(ValidIntervals(MaxTrCoord), MaxTrExons)}
    /\ UntouchedCaller

\* The accessors build their own lists (lines 110, 129, 158, 201): neither
\* the gene nor a transcript's exons is handed to a sort.

\* gene.introns
GetIntrons ==
    /\ call' = Called("Gene.introns", <<>>, FALSE, 0)
    /\ result' = Gene_introns(gene)
    /\ UNCHANGED <<exons, region, gene, prev>>

\* gene.exons_merged
GetExonsMerged ==
    /\ call' = Called("Gene.exons_merged", <<>>, FALSE, 0)
    /\ result' = exons_merged(gene)
    /\ UNCHANGED <<exons, region, gene, prev>>

\* gene.exons_overlapping
GetExonsOverlapping ==
    /\ call' = Called("Gene.exons_overlapping", <<>>, FALSE, 0)
    /\ result' = exons_overlapping(gene)
    /\ UNCHANGED <<exons, region, gene, prev>>

\* gene.exons_protein_coding_merged
GetExonsProteinCodingMerged ==
    /\ call' = Called("Gene.exons_protein_coding_merged", <<>>, FALSE, 0)
    /\ result' = exons_protein_coding_merged(gene)
    /\ UNCHANGED <<exons, region, gene, prev>>

\* gene.exons_protein_coding_overlapping
GetExonsProteinCodingOverlapping ==
    /\ call' = Called("Gene.exons_protein_coding_overlapping", <<>>, FALSE, 0)
    /\ result' = exons_protein_coding_overlapping(gene)
    /\ UNCHANGED <<exons, region, gene, prev>>

\* gene.transcripts[i].introns
GetTranscriptIntrons ==
    \E i \in 1..Len(gene.transcripts) :
        /\ call' = Called("Transcript.introns", <<>>, FALSE, i)
        /\ result' = Transcript_introns(gene, gene.transcripts[i])
        /\ UNCHANGED <<exons, region, gene, prev>>

NextGene ==
    \/ GetIntrons
    \/ GetExonsMerged
    \/ GetExonsOverlapping
    \/ GetExonsProteinCodingMerged
    \/ GetExonsProteinCodingOverlapping
    \/ GetTranscriptIntrons

NextCoding == GetExonsProteinCodingMerged \/ GetExonsProteinCodingOverlapping

NextTranscript == GetTranscriptIntrons

SpecGene == InitGene /\ [][NextGene]_vars
SpecCoding == InitCoding /\ [][NextCoding]_vars
SpecTranscript == InitTranscript /\ [][NextTranscript]_vars

----------------------------------------------------------------------------
(* Properties of Gene and Transcript *)

\* C3: on a gene without transcripts, introns and exons_merged both return
\* an empty result and raise nothing, whatever the gene's start and stop.
NoTranscriptsGiveEmptyResults ==
    (gene.transcripts = <<>> /\ call.op \in {"Gene.introns", "Gene.exons_merged"}) =>
        /\ result.kind # "raise"
        /\ result.starts = <<>>
        /\ result.stops = <<>>
        /\ result.items = <<>>

Overlapping(a, b) == a[1] < b[2] /\ b[1] < a[2]
NoTwoOverlap(xs) == \A i, j \in 1..Len(xs) : i # j => ~Overlapping(xs[i], xs[j])
Within(xs, g) == \A i \in 1..Len(xs) : g.start <= xs[i][1] /\ xs[i][2] <= g.stop

\* C4: for a transcript whose exons have start <= stop, do not overlap and
\* lie within the gene, Transcript.introns returns intervals in ascending
\* order, each with start < stop, pairwise disjoint, covering exactly the
\* positions of [gene.start, gene.stop) that no exon of the transcript covers.
TranscriptIntronsAreGeneComplement ==
    (/\ call.op = "Transcript.introns"
     /\ AllValid(gene.transcripts[call.tr].exons)
     /\ NoTwoOverlap(gene.transcripts[call.tr].exons)
     /\ Within(gene.transcripts[call.tr].exons, gene)) =>
        /\ result.kind = "list"
        /\ \A i \in 1..Len(result.items) : result.items[i][1] < result.items[i][2]
        /\ \A i, j \in 1..Len(result.items) :
              i < j => result.items[i][2] <= result.items[j][1]
        /\ Covered(result.items) =
              (gene.start .. (gene.stop - 1)) \ Covered(gene.transcripts[call.tr].exons)

\* exons given out of order, with a leading gap, a gap between them and a trailing gap
TranscriptIntronsAreGeneComplementWitness ==
    /\ call.op = "Transcript.introns"
    /\ gene.start = 0
    /\ gene.stop = 4
    /\ gene.transcripts[call.tr].exons = <<<<3, 3>>, <<1, 2>>>>
    /\ result = List(<<<<0, 1>>, <<2, 3>>, <<3, 4>>>>)

\* the exons of the protein-coding transcripts, in transcript order
RECURSIVE Flatten(_)
Flatten(xss) == IF xss = <<>> THEN <<>> ELSE Head(xss) \o Flatten(Tail(xss))

CodingTranscripts(g) == SelectSeq(g.transcripts, LAMBDA tr : tr.biotype = "protein_coding")
CodingExons(g) ==
    Flatten([k \in 1..Len(CodingTranscripts(g)) |-> CodingTranscripts(g)[k].exons])

BagOf(xs) == BagOfAll(LAMBDA i : xs[i], SetToBag(1..Len(xs)))

=============================================================================
